---- MODULE Spec2Model ----
(***************************************************************************)
(* Model of the loggers crate (src/lib.rs): the router Logger, which owns  *)
(* an ordered list of sinks and an optional fallback, and the sink         *)
(* CustomLogger, which is bound to one target and one file.                *)
(*                                                                         *)
(* Text (a JSON record, a console line, the content of a file) is a        *)
(* sequence of chunks.  A chunk is one of the characters that matter to a  *)
(* JSON reader (quote, backslash, newline, braces, colon, comma) or a run  *)
(* of ordinary characters ("INFO", "Hello, world!").                       *)
(***************************************************************************)
EXTENDS Integers, Sequences, FiniteSets, TLC

VARIABLES
    loggers,     \* Logger.loggers: the sinks, in add_logger order
    fallback,    \* Logger.fallback: <<>> is None, <<s>> is Some(s)
    pending,     \* a CustomLogger built by new() and not yet handed to the router
    files,       \* the file system: path -> [exists, content]
    installed,   \* the router was handed to log::set_boxed_logger
    console,     \* standard output: the lines printed by the last call (by all calls, when they run concurrently)
    now,         \* the local clock, in milliseconds since the program started
    hist,        \* per path: the records written there, one per write, since the file was last created (at the start: its lines)
    dispatched,  \* the records passed to Logger::log since the last CustomLogger::new, in call order
    lastWrites,  \* who wrote during the last Logger::log call, in order: i for loggers[i], 0 for the fallback
    lastNew,     \* <<[filepath, lost]>> when the last call was CustomLogger::new: its path and the number of lines written to the file it replaced
    lastSet,     \* <<[old]>> when the last call was Logger::set_fallback: old is the fallback it replaced (<<>> if none was set)
    nLog,        \* number of Logger::log calls so far
    threads      \* per thread: where its Logger::log call stands (used when calls run concurrently)

vars == <<loggers, fallback, pending, installed, files, console, now, hist, dispatched, lastWrites, lastNew, lastSet, nLog, threads>>

-----------------------------------------------------------------------------
(* Bounds of the model *)

MaxLoggers == 2
MaxLog == 2
NThreads == 2

-----------------------------------------------------------------------------
(* Characters and input sets *)

Q == "\""
BS == "\\"
NL == "\n"

\* log::Level
Levels == {"Error", "Warn", "Info", "Debug", "Trace"}

\* Targets sinks are keyed with, and targets of events.  An event logged
\* without a target carries the module path of its call site.
ModulePath == "loggers::tests"
SinkTargets == {"test", "default"}
EventTargets == SinkTargets \cup {ModulePath}

Paths == {"tests/output/system.log", "tests/output/app.log"}

\* Message texts (record.args()), as chunk sequences.
HelloWorld == <<"Hello, world!">>
Quoted == <<"say ", Q, "hi", Q>>
TwoLines == <<"first", NL, "second">>
Messages == {HelloWorld, Quoted, TwoLines}

\* The file system before the program starts: no file exists, or every file
\* holds a line of an earlier run.
OldLine == <<"old">>
InitialFiles == { [p \in Paths |-> [exists |-> FALSE, content |-> <<>>]],
                  [p \in Paths |-> [exists |-> TRUE, content |-> OldLine \o <<NL>>]] }

-----------------------------------------------------------------------------
(* Text helpers *)

RECURSIVE Flatten(_)
Flatten(ss) ==
    IF ss = <<>> THEN <<>> ELSE Head(ss) \o Flatten(Tail(ss))

\* Split a text at its newlines, as a reader of lines does: every newline
\* ends a line; text after the last newline is a last, unterminated line.
RECURSIVE SplitLines(_, _)
SplitLines(text, cur) ==
    IF text = <<>> THEN (IF cur = <<>> THEN <<>> ELSE <<cur>>)
    ELSE IF Head(text) = NL THEN <<cur>> \o SplitLines(Tail(text), <<>>)
    ELSE SplitLines(Tail(text), Append(cur, Head(text)))

Lines(text) == SplitLines(text, <<>>)

-----------------------------------------------------------------------------
(* Formatting: CustomLogger::log, lines 126-139 *)

\* Display of log::Level, as record.level() is formatted: the upper-case name.
LevelAsStr(level) ==
    CASE level = "Error" -> "ERROR"
      [] level = "Warn" -> "WARN"
      [] level = "Info" -> "INFO"
      [] level = "Debug" -> "DEBUG"
      [] level = "Trace" -> "TRACE"

\* str::to_uppercase on the level names.
ToUppercase(s) ==
    CASE s \in {"ERROR", "error", "Error"} -> "ERROR"
      [] s \in {"WARN", "warn", "Warn"} -> "WARN"
      [] s \in {"INFO", "info", "Info"} -> "INFO"
      [] s \in {"DEBUG", "debug", "Debug"} -> "DEBUG"
      [] s \in {"TRACE", "trace", "Trace"} -> "TRACE"

\* Local::now().to_rfc3339_opts(SecondsFormat::Millis, true) at clock value n.
Rfc3339(n) ==
    "2024-01-01T00:00:00." \o (IF n < 10 THEN "00" ELSE IF n < 100 THEN "0" ELSE "")
        \o ToString(n) \o "Z"

\* format!(r#"{{"severity":"{}","timestamp":"{}","target":"{}","message":"{}"}}"#, ...):
\* the four values are spliced in as they are.
LogJsonText(self, record, ts) ==
    <<"{", Q, "severity", Q, ":", Q, LevelAsStr(record.level), Q, ",",
      Q, "timestamp", Q, ":", Q, ts, Q, ",",
      Q, "target", Q, ":", Q, self.target, Q, ",",
      Q, "message", Q, ":", Q>> \o record.args \o <<Q, "}">>

\* format!("[{}] {} {} - {}", ...)
LogPrintText(self, record, ts) ==
    <<"[", ToUppercase(LevelAsStr(record.level)), "]", " ", self.target, " ", ts, " - ">>
        \o record.args

-----------------------------------------------------------------------------
(* Reading a text as JSON, as serde_json::from_str::<Value> does (tests::test_log,
   line 210), for the texts of this model: an object whose keys and values are
   strings.  A parsed string is the sequence of the characters it denotes. *)

Failed == [ok |-> FALSE, val |-> <<>>, next |-> 0]

RECURSIVE SkipWs(_, _)
SkipWs(t, i) ==
    IF i <= Len(t) /\ t[i] = NL THEN SkipWs(t, i + 1) ELSE i

\* The characters of a string, from the one after its opening quote: the string
\* ends at the first quote that no backslash escapes; a backslash escapes a quote
\* or a backslash (no chunk of this model starts with another escape letter); a
\* raw newline is a control character, which a JSON string may not hold.
RECURSIVE StrBody(_, _, _)
StrBody(t, i, acc) ==
    IF i > Len(t) THEN Failed
    ELSE IF t[i] = Q THEN [ok |-> TRUE, val |-> acc, next |-> i + 1]
    ELSE IF t[i] = NL THEN Failed
    ELSE IF t[i] = BS THEN
        IF i + 1 <= Len(t) /\ t[i + 1] \in {Q, BS}
        THEN StrBody(t, i + 2, Append(acc, t[i + 1]))
        ELSE Failed
    ELSE StrBody(t, i + 1, Append(acc, t[i]))

ParseStr(t, i) ==
    IF i <= Len(t) /\ t[i] = Q THEN StrBody(t, i + 1, <<>>) ELSE Failed

\* The members of an object, from the first key: key ":" value, then "," and
\* the next member, or "}".
RECURSIVE Members(_, _, _)
Members(t, i, acc) ==
    LET k == ParseStr(t, SkipWs(t, i))
        c == SkipWs(t, k.next)
        v == ParseStr(t, SkipWs(t, c + 1))
        d == SkipWs(t, v.next)
    IN  IF ~k.ok \/ c > Len(t) \/ t[c] # ":" THEN Failed
        ELSE IF ~v.ok \/ d > Len(t) THEN Failed
        ELSE IF t[d] = "," THEN Members(t, d + 1, Append(acc, <<k.val, v.val>>))
        ELSE IF t[d] = "}" THEN [ok |-> TRUE, val |-> Append(acc, <<k.val, v.val>>), next |-> d + 1]
        ELSE Failed

\* The whole text is one JSON object (white space around it is allowed, any
\* other character after it is an error).  val: the members, in order.
FromStr(t) ==
    LET i == SkipWs(t, 1)
        m == IF i + 1 <= Len(t) /\ t[i] = "{"
             THEN (IF SkipWs(t, i + 1) <= Len(t) /\ t[SkipWs(t, i + 1)] = "}"
                   THEN [ok |-> TRUE, val |-> <<>>, next |-> SkipWs(t, i + 1) + 1]
                   ELSE Members(t, i + 1, <<>>))
             ELSE Failed
    IN  IF m.ok /\ SkipWs(t, m.next) > Len(t) THEN m ELSE Failed

\* v[key] of a parsed object: the value of the last member with that key;
\* <<"null">> stands for Value::Null, which no string value equals.
RECURSIVE Index(_, _)
Index(members, key) ==
    IF members = <<>> THEN <<"null">>
    ELSE LET last == members[Len(members)]
         IN  IF last[1] = <<key>> THEN last[2]
             ELSE Index(SubSeq(members, 1, Len(members) - 1), key)

-----------------------------------------------------------------------------
(* The file system and std::io::BufWriter *)

\* BufWriter::new: the default capacity of the buffer, in bytes.
BufCapacity == 8192

\* A message of BufCapacity bytes, written as one chunk.
BigWord == "x..x (8192 bytes)"
BigMessage == <<BigWord>>

ChunkLen(c) == IF c = BigWord THEN BufCapacity ELSE Len(c)

RECURSIVE ByteLen(_)
ByteLen(text) ==
    IF text = <<>> THEN 0 ELSE ChunkLen(Head(text)) + ByteLen(Tail(text))

\* A faulty FileCreate: the file is created when absent and kept when present
\* (OpenOptions::create without truncate).
FileCreateKeep(fs, filepath) ==
    [fs EXCEPT ![filepath] = [exists |-> TRUE, content |-> @.content]]

\* File::create(filepath): the file exists and is empty afterwards.
FileCreate(fs, filepath) ==
    [fs EXCEPT ![filepath] = [exists |-> TRUE, content |-> <<>>]]

\* One write(2) on a file opened with create(true).append(true): the bytes go
\* to the end of the file, whatever it holds.
FileAppend(fs, filepath, bytes) ==
    [fs EXCEPT ![filepath] = [exists |-> TRUE, content |-> @.content \o bytes]]

\* The write(2) calls that bf.write(json), bf.write(b"\n") and the drop of bf
\* make, in order.  BufWriter::write passes a slice of at least the buffer's
\* capacity straight to the file and buffers a smaller one; the drop flushes
\* the buffer.
BufWriterCalls(json) ==
    IF ByteLen(json) >= BufCapacity
    THEN <<json, <<NL>>>>
    ELSE <<json \o <<NL>>>>

RECURSIVE FileAppendAll(_, _, _)
FileAppendAll(fs, filepath, calls) ==
    IF calls = <<>> THEN fs
    ELSE FileAppendAll(FileAppend(fs, filepath, Head(calls)), filepath, Tail(calls))

-----------------------------------------------------------------------------
(* CustomLogger.  A sink is [target, filepath]; filepath is an Option:
   <<>> is None and <<p>> is Some(p).  The operators thread the world
   w = [files, console, hist, writes] through the calls. *)

CustomLoggerValue(target, filepath) ==
    [target |-> target, filepath |-> <<filepath>>]

\* The sinks the caller builds: two targets on one file, one target on two files.
Sinks ==
    { CustomLoggerValue("test", "tests/output/system.log"),
      CustomLoggerValue("default", "tests/output/system.log"),
      CustomLoggerValue("test", "tests/output/app.log") }

\* A faulty CustomLoggerEnabled: every record is accepted.
CustomLoggerEnabledAlways(self, record) ==
    TRUE

\* CustomLogger::enabled
CustomLoggerEnabled(self, record) ==
    record.target = self.target

\* The match on self.filepath, lines 141-156.
CustomLoggerWriteFile(self, json, w) ==
    IF self.filepath # <<>>
    THEN [w EXCEPT !.files = FileAppendAll(@, self.filepath[1], BufWriterCalls(json)),
                   !.hist = [@ EXCEPT ![self.filepath[1]] = Append(@, json)]]
    ELSE [w EXCEPT !.console = Append(@, <<"Cannot open file None">>)]

\* A faulty CustomLoggerLog: the guard of lines 122-124 is missing.
CustomLoggerLogUnchecked(self, id, record, ts, w) ==
    LET log_json_text == LogJsonText(self, record, Rfc3339(ts))
        log_print_text == LogPrintText(self, record, Rfc3339(ts))
        w1 == CustomLoggerWriteFile(self, log_json_text, w)
    IN  [w1 EXCEPT !.console = Append(@, log_print_text),
                   !.writes = Append(@, id)]

\* CustomLogger::log, called as sink `id` at clock value ts.
CustomLoggerLog(self, id, record, ts, w) ==
    IF ~CustomLoggerEnabled(self, record) THEN w
    ELSE LET log_json_text == LogJsonText(self, record, Rfc3339(ts))
             log_print_text == LogPrintText(self, record, Rfc3339(ts))
             w1 == CustomLoggerWriteFile(self, log_json_text, w)
         IN  [w1 EXCEPT !.console = Append(@, log_print_text),
                        !.writes = Append(@, id)]

-----------------------------------------------------------------------------
(* Logger *)

\* A faulty LoggerLogLoop: the loop ends at the first sink that accepts.
RECURSIVE LoggerLogLoopFirstMatch(_, _, _, _, _)
LoggerLogLoopFirstMatch(ls, i, record, ts, st) ==
    IF i > Len(ls) THEN st
    ELSE IF CustomLoggerEnabled(ls[i], record)
         THEN [logged |-> TRUE, w |-> CustomLoggerLog(ls[i], i, record, ts, st.w)]
         ELSE LoggerLogLoopFirstMatch(ls, i + 1, record, ts, st)

\* A faulty LoggerLogLoop: the sinks are visited from the last to the first.
RECURSIVE LoggerLogLoopReversed(_, _, _, _, _)
LoggerLogLoopReversed(ls, i, record, ts, st) ==
    LET j == Len(ls) + 1 - i
    IN  IF i > Len(ls) THEN st
        ELSE IF CustomLoggerEnabled(ls[j], record)
             THEN LoggerLogLoopReversed(ls, i + 1, record, ts,
                      [logged |-> TRUE, w |-> CustomLoggerLog(ls[j], j, record, ts, st.w)])
             ELSE LoggerLogLoopReversed(ls, i + 1, record, ts, st)

\* The for loop of Logger::log, from sink i on: st = [logged, w].
RECURSIVE LoggerLogLoop(_, _, _, _, _)
LoggerLogLoop(ls, i, record, ts, st) ==
    IF i > Len(ls) THEN st
    ELSE IF CustomLoggerEnabled(ls[i], record)
         THEN LoggerLogLoop(ls, i + 1, record, ts,
                  [logged |-> TRUE, w |-> CustomLoggerLog(ls[i], i, record, ts, st.w)])
         ELSE LoggerLogLoop(ls, i + 1, record, ts, st)

\* A faulty LoggerLogFallback: the fallback is called whether or not a sink accepted.
LoggerLogFallbackAlways(fb, record, ts, st) ==
    IF fb # <<>>
    THEN CustomLoggerLog(fb[1], 0, record, ts, st.w)
    ELSE st.w

\* The fallback branch of Logger::log, lines 86-90.
LoggerLogFallback(fb, record, ts, st) ==
    IF ~st.logged /\ fb # <<>>
    THEN CustomLoggerLog(fb[1], 0, record, ts, st.w)
    ELSE st.w

\* Logger::log
LoggerLog(ls, fb, record, ts, w) ==
    LoggerLogFallback(fb, record, ts,
        LoggerLogLoop(ls, 1, record, ts, [logged |-> FALSE, w |-> w]))

-----------------------------------------------------------------------------
(* Threads.  A thread that calls Logger::log goes through the sinks in
   order; at each sink that accepts it makes the write(2) calls of the record,
   one at a time, then prints the console line. *)

Threads == 1..NThreads

\* pc: idle, write, print or done; record: the argument of the call; id: the sink
\* the thread is in (i for loggers[i], 0 for the fallback); logged: the local of
\* Logger::log; ts: the clock read in the sink; queue: the write(2) calls ahead.
Idle == [pc |-> "idle", record |-> <<>>, id |-> 0, logged |-> FALSE, ts |-> 0, queue |-> <<>>]

-----------------------------------------------------------------------------
(* The program: a caller that builds sinks, configures the router and logs *)

\* The records logged: every level, every target and every message occurs.
Record(level, target, args) ==
    [level |-> level, target |-> target, args |-> args]

Records ==
    { Record("Info", "test", HelloWorld),
      Record("Info", "test", Quoted),
      Record("Warn", "test", TwoLines),
      Record("Error", "default", HelloWorld),
      Record("Debug", ModulePath, HelloWorld),
      Record("Trace", ModulePath, HelloWorld) }

Init ==
    /\ loggers = <<>>
    /\ fallback = <<>>
    /\ pending = <<>>
    /\ installed = FALSE
    /\ files \in InitialFiles
    /\ console = <<>>
    /\ now = 0
    /\ hist = [p \in Paths |-> Lines(files[p].content)]
    /\ dispatched = <<>>
    /\ lastWrites = <<>>
    /\ lastNew = <<>>
    /\ lastSet = <<>>
    /\ nLog = 0
    /\ threads = [t \in Threads |-> Idle]

\* CustomLogger::new(target, filepath): the file is created (truncated) and the
\* sink is returned to the caller, who holds it until it is handed to the
\* router; once the router is installed there is nothing to hand it to.
New(target, filepath) ==
    /\ files' = FileCreate(files, filepath)
    /\ hist' = [hist EXCEPT ![filepath] = <<>>]
    /\ pending' = IF installed THEN <<>> ELSE <<CustomLoggerValue(target, filepath)>>
    /\ console' = <<>>
    /\ dispatched' = <<>>
    /\ lastWrites' = <<>>
    /\ lastNew' = <<[filepath |-> filepath, lost |-> Len(hist[filepath])]>>
    /\ lastSet' = <<>>
    /\ UNCHANGED <<loggers, fallback, installed, now, nLog, threads>>

\* Logger::add_logger with the sink the caller holds.
AddLogger ==
    /\ ~installed
    /\ pending # <<>>
    /\ Len(loggers) < MaxLoggers
    /\ loggers' = Append(loggers, pending[1])
    /\ pending' = <<>>
    /\ lastNew' = <<>>
    /\ lastSet' = <<>>
    /\ UNCHANGED <<fallback, installed, files, console, now, hist, dispatched, lastWrites, nLog, threads>>

\* A faulty SetFallback: a fallback that is set stays, the new one is dropped.
SetFallbackKeep ==
    /\ ~installed
    /\ pending # <<>>
    /\ fallback' = IF fallback = <<>> THEN <<pending[1]>> ELSE fallback
    /\ pending' = <<>>
    /\ lastNew' = <<>>
    /\ lastSet' = <<[old |-> fallback]>>
    /\ UNCHANGED <<loggers, installed, files, console, now, hist, dispatched, lastWrites, nLog, threads>>

\* Logger::set_fallback with the sink the caller holds: the assignment drops the
\* fallback that was set, if any.
SetFallback ==
    /\ ~installed
    /\ pending # <<>>
    /\ fallback' = <<pending[1]>>
    /\ pending' = <<>>
    /\ lastNew' = <<>>
    /\ lastSet' = <<[old |-> fallback]>>
    /\ UNCHANGED <<loggers, installed, files, console, now, hist, dispatched, lastWrites, nLog, threads>>

\* log::set_boxed_logger(Box::new(logger)) and log::set_max_level(Trace): the
\* router moves into the facade, which from then on passes every record of the
\* log macros to Logger::log; the caller can no longer configure it, and a sink
\* it still holds is dropped.
SetBoxedLogger ==
    /\ ~installed
    /\ installed' = TRUE
    /\ pending' = <<>>
    /\ lastNew' = <<>>
    /\ lastSet' = <<>>
    /\ UNCHANGED <<loggers, fallback, files, console, now, hist, dispatched, lastWrites, nLog, threads>>

\* Logger::log(record).  The calls of the model are a millisecond apart.
Log(record) ==
    /\ installed
    /\ nLog < MaxLog
    /\ nLog' = nLog + 1
    /\ LET w == LoggerLog(loggers, fallback, record, now,
                   [files |-> files, console |-> <<>>, hist |-> hist, writes |-> <<>>])
       IN  /\ files' = w.files
           /\ console' = w.console
           /\ hist' = w.hist
           /\ lastWrites' = w.writes
    /\ dispatched' = Append(dispatched, record)
    /\ lastNew' = <<>>
    /\ lastSet' = <<>>
    /\ now' = now + 1
    /\ UNCHANGED <<loggers, fallback, pending, installed, threads>>

Next ==
    \/ \E k \in Sinks : New(k.target, k.filepath[1])
    \/ AddLogger
    \/ SetFallback
    \/ SetBoxedLogger
    \/ \E r \in Records : Log(r)

Spec == Init /\ [][Next]_vars

-----------------------------------------------------------------------------
(* Vocabulary of the properties *)

\* A Logger::log call was the last call; E is its record, K its target.
Dispatched == dispatched # <<>>
E == dispatched[Len(dispatched)]
K == E.target

\* The registered sinks whose target equals K.
Matching == { i \in 1..Len(loggers) : loggers[i].target = K }

\* How often id occurs among the writers of the last dispatch.
WriteCount(id) == Cardinality({ n \in 1..Len(lastWrites) : lastWrites[n] = id })

\* The sink behind a writer id.
Writer(id) == IF id = 0 THEN fallback[1] ELSE loggers[id]

\* The text the writers of the last dispatch appended to path p, if each of them
\* appended the record of E followed by a newline: the clock read now - 1.
Appended(p) ==
    LET onP == SelectSeq(lastWrites, LAMBDA id : Writer(id).filepath = <<p>>)
    IN  Flatten([n \in 1..Len(onP) |->
                    LogJsonText(Writer(onP[n]), E, Rfc3339(now - 1)) \o <<NL>>])

IsSuffix(s, t) ==
    Len(s) <= Len(t) /\ SubSeq(t, Len(t) - Len(s) + 1, Len(t)) = s

\* Every file ends with what the writers of the last dispatch appended to it.
FilesHoldWrites == \A p \in Paths : IsSuffix(Appended(p), files[p].content)

-----------------------------------------------------------------------------
(* Routing *)

\* C1: one dispatch of a record with target K makes every registered sink whose
\* target equals K write once and no registered sink whose target differs write,
\* and the files hold the record once per write; two sinks with the same target
\* both write.
C1_RoutingCorrectness ==
    Dispatched =>
        /\ \A i \in 1..Len(loggers) : WriteCount(i) = (IF i \in Matching THEN 1 ELSE 0)
        /\ FilesHoldWrites

\* Two sinks registered with the target of the record both wrote.
C1_Witness ==
    /\ Dispatched
    /\ Len(loggers) = 2
    /\ loggers[1].target = K
    /\ loggers[2].target = K
    /\ WriteCount(1) = 1
    /\ WriteCount(2) = 1

\* C2, as claimed: with a fallback set and no registered sink matching, one
\* dispatch makes exactly one write, by the fallback, whatever the fallback's
\* own target is.
C2_FallbackUnconditional ==
    (Dispatched /\ fallback # <<>> /\ Matching = {}) => lastWrites = <<0>>

\* C2, amended: with a fallback set and no registered sink matching, no sink
\* writes, and the fallback writes once when its own target equals the record's
\* target and not at all otherwise.
C2_FallbackOnMiss ==
    (Dispatched /\ fallback # <<>> /\ Matching = {}) =>
        /\ lastWrites = (IF fallback[1].target = K THEN <<0>> ELSE <<>>)
        /\ Len(console) = Len(lastWrites)
        /\ FilesHoldWrites

\* A miss on every registered sink, served by a fallback with the record's target.
C2_Witness ==
    /\ Dispatched
    /\ loggers # <<>>
    /\ Matching = {}
    /\ fallback # <<>>
    /\ fallback[1].target = K
    /\ lastWrites = <<0>>

\* C4: when the record's target matches at least one registered sink, the
\* fallback does not write, even if its own target equals the record's: the
\* only lines printed are those of the matching sinks.
C4_FallbackNeverOnHit ==
    (Dispatched /\ Matching # {}) =>
        /\ WriteCount(0) = 0
        /\ Len(console) = Cardinality(Matching)

\* A hit while a fallback with the record's target is set.
C4_Witness ==
    /\ Dispatched
    /\ Matching # {}
    /\ fallback # <<>>
    /\ fallback[1].target = K

\* C5: a dispatch with no fallback set and no registered sink matching leaves
\* every file as it was, prints nothing and writes nothing.
C5_NoFallbackNoMatch ==
    [][ (nLog' = nLog + 1 /\ fallback = <<>> /\ Matching' = {}) =>
            (files' = files /\ console' = <<>> /\ lastWrites' = <<>>) ]_vars

\* A record was dispatched to a router with sinks, none matching, and no fallback.
C5_Witness ==
    /\ Dispatched
    /\ loggers # <<>>
    /\ fallback = <<>>
    /\ Matching = {}
    /\ lastWrites = <<>>

\* C9: the sinks are offered the record in add_logger order and every matching
\* sink writes exactly once: the sinks that wrote are the matching ones, each
\* once, in increasing position.
C9_DispatchOrder ==
    Dispatched =>
        LET sinkWrites == SelectSeq(lastWrites, LAMBDA id : id # 0)
        IN  /\ \A m, n \in 1..Len(sinkWrites) : m < n => sinkWrites[m] < sinkWrites[n]
            /\ { sinkWrites[n] : n \in 1..Len(sinkWrites) } = Matching

\* Two different sinks matched and wrote, the first registered first.
C9_Witness ==
    /\ Dispatched
    /\ Len(loggers) = 2
    /\ loggers[1] # loggers[2]
    /\ lastWrites = <<1, 2>>

-----------------------------------------------------------------------------
(* Construction *)

\* C7: after CustomLogger::new the file of the new sink exists and is empty,
\* whatever it held: also when a sink was built on the same path before and has
\* written to it.
C7_TruncationOnConstruction ==
    lastNew # <<>> =>
        files[lastNew[1].filepath] = [exists |-> TRUE, content |-> <<>>]

\* A second sink was built on the path of a registered sink that had written.
C7_Witness ==
    /\ installed
    /\ lastNew # <<>>
    /\ lastNew[1].lost > 0
    /\ \E i \in 1..Len(loggers) : loggers[i].filepath = <<lastNew[1].filepath>>
    /\ files[lastNew[1].filepath].content = <<>>

-----------------------------------------------------------------------------
(* Configuration *)

\* C11: a set_fallback call leaves the router with exactly one fallback, the
\* sink of that call, whatever fallback was set before; it touches neither the
\* registered sinks nor a file nor standard output.  A sink handed to
\* add_logger goes to the end of the registered sinks and leaves the fallback
\* alone, so no sink is both registered and the fallback.  A dispatch appends to
\* the files what the registered sinks and the present fallback write and
\* nothing else, and the fallback writes at most once: a fallback that was
\* replaced writes no more.
C11_SetFallbackReplaces ==
    [][ /\ lastSet' # <<>> =>
              /\ fallback' = <<pending[1]>>
              /\ pending' = <<>>
              /\ loggers' = loggers
              /\ files' = files
              /\ console' = console
        /\ loggers' # loggers =>
              /\ loggers' = Append(loggers, pending[1])
              /\ pending' = <<>>
              /\ fallback' = fallback
        /\ nLog' = nLog + 1 =>
              /\ loggers' = loggers
              /\ fallback' = fallback
              /\ \A n \in 1..Len(lastWrites') : lastWrites'[n] \in 0..Len(loggers)
              /\ WriteCount(0)' <= 1
              /\ WriteCount(0)' = 1 => fallback # <<>>
              /\ \A p \in Paths : files'[p].content = files[p].content \o Appended(p)' ]_vars

\* set_fallback has just replaced a fallback with a sink of another target on
\* another file, on a router that has a registered sink.
C11_Witness ==
    /\ lastSet # <<>>
    /\ lastSet[1].old # <<>>
    /\ fallback # <<>>
    /\ lastSet[1].old[1].target # fallback[1].target
    /\ lastSet[1].old[1].filepath # fallback[1].filepath
    /\ loggers # <<>>

-----------------------------------------------------------------------------
(* Content of the files *)

\* The records the last dispatch appended to path p, one per write, oldest first.
LastAppended(p) ==
    LET n == Cardinality({ m \in 1..Len(lastWrites) : Writer(lastWrites[m]).filepath = <<p>> })
    IN  SubSeq(hist[p], Len(hist[p]) - n + 1, Len(hist[p]))

\* The text reads as one JSON object with these three values.
ReadsAs(text, severity, target, message) ==
    LET v == FromStr(text)
    IN  /\ v.ok
        /\ Index(v.val, "severity") = <<severity>>
        /\ Index(v.val, "target") = <<target>>
        /\ Index(v.val, "message") = message

\* The case of C3: one sink and a fallback with another target on the same
\* file; an Info record for the sink was dispatched, then a record for neither.
C3_Case ==
    /\ Len(loggers) = 1
    /\ fallback # <<>>
    /\ fallback[1].target # loggers[1].target
    /\ fallback[1].filepath = loggers[1].filepath
    /\ Len(dispatched) = 2
    /\ dispatched[1].level = "Info"
    /\ dispatched[1].target = loggers[1].target
    /\ dispatched[2].target \notin {loggers[1].target, fallback[1].target}

\* C3: in that case the whole file reads as a single JSON object with severity
\* INFO, the sink's target and the message of the first record.
C3_SingleRecord ==
    C3_Case =>
        ReadsAs(files[loggers[1].filepath[1]].content,
                "INFO", loggers[1].target, dispatched[1].args)

\* C3 for the message of tests::test_log, which holds no quote, backslash or
\* control character: the second record leaves the file alone.
C3_SingleRecordPlain ==
    (C3_Case /\ dispatched[1].args = HelloWorld) =>
        ReadsAs(files[loggers[1].filepath[1]].content,
                "INFO", loggers[1].target, dispatched[1].args)

\* A sink that no other sink of the router shares its file with.
AloneOnPath(i) ==
    /\ \A j \in 1..Len(loggers) : j # i => loggers[j].filepath # loggers[i].filepath
    /\ fallback # <<>> => fallback[1].filepath # loggers[i].filepath

\* C6: the file of a sink holds exactly one line per write made since the file
\* was created, in call order: the n-th line is the record of the n-th write.
C6_AppendOnlyGrowth ==
    \A i \in 1..Len(loggers) :
        AloneOnPath(i) =>
            Lines(files[loggers[i].filepath[1]].content) = hist[loggers[i].filepath[1]]

\* The part of C6 about appending: a dispatch only adds to the end of a file.
C6_OnlyAppends ==
    [][ nLog' = nLog + 1 =>
            \A p \in Paths :
                /\ Len(files[p].content) <= Len(files'[p].content)
                /\ SubSeq(files'[p].content, 1, Len(files[p].content)) = files[p].content ]_vars

\* C10: every record appended by a write reads as JSON with the level name in
\* upper case as severity, the target of the writing sink as target and the
\* message of the dispatched record as message.
C10_RecordContent ==
    Dispatched =>
        \A p \in Paths :
            \A n \in 1..Len(LastAppended(p)) :
                ReadsAs(LastAppended(p)[n], ToUppercase(E.level), K, E.args)

\* The example of C10: an Info record with message "Hello, world!" dispatched
\* to a sink with target "test".
C10_Example ==
    (Dispatched /\ E = Record("Info", "test", HelloWorld)) =>
        \A p \in Paths :
            \A n \in 1..Len(LastAppended(p)) :
                ReadsAs(LastAppended(p)[n], "INFO", "test", <<"Hello, world!">>)

-----------------------------------------------------------------------------
(* Side effects of a write *)

\* The lines on standard output after the println! calls of the last dispatch.
ConsoleLines ==
    Lines(Flatten([n \in 1..Len(console) |-> console[n] \o <<NL>>]))

\* The writes of the last dispatch that went to the file at p.
WritesOn(p) ==
    Cardinality({ m \in 1..Len(lastWrites) : Writer(lastWrites[m]).filepath = <<p>> })

\* Every write of the last dispatch added one line to its file and one line to
\* standard output.
OneLineEach ==
    /\ FilesHoldWrites
    /\ \A p \in Paths : Len(Lines(Appended(p))) = WritesOn(p)
    /\ Len(ConsoleLines) = Len(lastWrites)

\* C12: after a dispatch every sink that wrote, registered or fallback, has
\* appended exactly one record (one line) to its file and printed exactly one
\* line, so the record lines appended and the lines printed are as many as the
\* writes; a dispatch in which nothing is appended prints nothing.
C12_BothSideEffects ==
    Dispatched =>
        /\ OneLineEach
        /\ lastWrites = <<>> => console = <<>>

\* C12 for messages that hold no line break.
C12_PlainMessages ==
    (Dispatched /\ NL \notin { E.args[n] : n \in 1..Len(E.args) }) =>
        /\ OneLineEach
        /\ lastWrites = <<>> => console = <<>>

\* The part of C12 about the pairing, for every message: a dispatch makes one
\* append (the record and a newline) and one println! (the text of the same
\* record) per write, in the order of the writes; the lines added to the files
\* and the lines printed are equally many; a dispatch without a write, as when
\* the fallback is offered a record of another target, leaves the files alone
\* and prints nothing.
C12_OneAppendOnePrint ==
    [][ nLog' = nLog + 1 =>
            /\ Len(console') = Len(lastWrites')
            /\ \A n \in 1..Len(console') :
                   console'[n] = LogPrintText(Writer(lastWrites'[n]), E', Rfc3339(now))
            /\ \A p \in Paths :
                   /\ files'[p].content = files[p].content \o Appended(p)'
                   /\ Len(hist'[p]) = Len(hist[p]) + WritesOn(p)'
            /\ Len(ConsoleLines') = Len(Lines(Flatten([n \in 1..Len(lastWrites') |->
                   LogJsonText(Writer(lastWrites'[n]), E', Rfc3339(now)) \o <<NL>>])))
            /\ lastWrites' = <<>> => (files' = files /\ console' = <<>>) ]_vars

-----------------------------------------------------------------------------
(* Concurrent calls of Logger::log on an installed router: every thread makes
   one call.  A step is what one thread does up to and including its next
   access to a file or to standard output. *)

\* The records logged concurrently: none holds a quote, a backslash or a
\* control character; one is as long as the buffer of BufWriter.
ConcRecords ==
    { Record("Info", "test", HelloWorld),
      Record("Info", "test", BigMessage),
      Record("Error", "default", HelloWorld) }

\* The routers the threads log through: [loggers, fallback].
ConcRouters ==
    LET test == CustomLoggerValue("test", "tests/output/system.log")
        default == CustomLoggerValue("default", "tests/output/system.log")
        app == CustomLoggerValue("test", "tests/output/app.log")
    IN  { [loggers |-> <<test>>, fallback |-> <<>>],
          [loggers |-> <<test>>, fallback |-> <<default>>],
          [loggers |-> <<test, default>>, fallback |-> <<>>],
          [loggers |-> <<test, app>>, fallback |-> <<default>>] }

\* The state after the setup: every sink was built (its file is empty), the
\* router is installed, no thread has logged.
InitConc ==
    /\ \E r \in ConcRouters : loggers = r.loggers /\ fallback = r.fallback
    /\ pending = <<>>
    /\ installed = TRUE
    /\ files = [p \in Paths |-> [exists |-> TRUE, content |-> <<>>]]
    /\ console = <<>>
    /\ now = 0
    /\ hist = [p \in Paths |-> <<>>]
    /\ dispatched = <<>>
    /\ lastWrites = <<>>
    /\ lastNew = <<>>
    /\ lastSet = <<>>
    /\ nLog = 0
    /\ threads = [t \in Threads |-> Idle]

\* Where a thread goes after sink `id` (0 before the first): the next sink of
\* the for loop that accepts the record; after the loop the fallback, if no
\* sink accepted, one is set and it accepts; else the call returns.
RECURSIVE NextWriter(_, _, _)
NextWriter(record, id, logged) ==
    IF id < Len(loggers)
    THEN IF CustomLoggerEnabled(loggers[id + 1], record)
         THEN [id |-> id + 1, logged |-> TRUE]
         ELSE NextWriter(record, id + 1, logged)
    ELSE IF ~logged /\ fallback # <<>> /\ CustomLoggerEnabled(fallback[1], record)
         THEN [id |-> 0, logged |-> TRUE]
         ELSE [id |-> -1, logged |-> logged]

\* The thread enters CustomLogger::log of the next accepting sink with the
\* write(2) calls of its record ahead, or returns from Logger::log.
Proceed(th, record, id, logged, ts) ==
    LET nx == NextWriter(record, id, logged)
        self == IF nx.id = 0 THEN fallback[1] ELSE loggers[nx.id]
    IN  IF nx.id = -1
        THEN [th EXCEPT !.pc = "done", !.queue = <<>>]
        ELSE [pc |-> "write", record |-> record, id |-> nx.id, logged |-> nx.logged, ts |-> ts,
              queue |-> BufWriterCalls(LogJsonText(self, record, Rfc3339(ts)))]

\* A thread calls Logger::log(record).
Call(t, record) ==
    /\ threads[t].pc = "idle"
    /\ threads' = [threads EXCEPT ![t] = Proceed(@, record, 0, FALSE, now)]
    /\ dispatched' = Append(dispatched, record)
    /\ now' = now + 1
    /\ UNCHANGED <<loggers, fallback, pending, installed, files, console, hist, lastWrites, lastNew, lastSet, nLog>>

\* The next write(2) call of the thread on the file of its sink; with the
\* first one hist notes the record the sink is writing.
Write(t) ==
    LET th == threads[t]
        self == IF th.id = 0 THEN fallback[1] ELSE loggers[th.id]
        log_json_text == LogJsonText(self, th.record, Rfc3339(th.ts))
    IN  /\ th.pc = "write"
        /\ files' = FileAppend(files, self.filepath[1], Head(th.queue))
        /\ hist' = IF th.queue = BufWriterCalls(log_json_text)
                   THEN [hist EXCEPT ![self.filepath[1]] = Append(@, log_json_text)]
                   ELSE hist
        /\ threads' = [threads EXCEPT ![t] =
                          IF Len(th.queue) = 1
                          THEN [@ EXCEPT !.pc = "print", !.queue = <<>>]
                          ELSE [@ EXCEPT !.queue = Tail(@)]]
        /\ UNCHANGED <<loggers, fallback, pending, installed, console, now, dispatched, lastWrites, lastNew, lastSet, nLog>>

\* println!(log_print_text), then on to the next sink.
PrintLn(t) ==
    LET th == threads[t]
        self == IF th.id = 0 THEN fallback[1] ELSE loggers[th.id]
    IN  /\ th.pc = "print"
        /\ console' = Append(console, LogPrintText(self, th.record, Rfc3339(th.ts)))
        /\ threads' = [threads EXCEPT ![t] =
                          IF th.id = 0
                          THEN [@ EXCEPT !.pc = "done"]
                          ELSE Proceed(@, th.record, th.id, th.logged, now)]
        /\ UNCHANGED <<loggers, fallback, pending, installed, files, now, hist, dispatched, lastWrites, lastNew, lastSet, nLog>>

NextConc ==
    \/ \E t \in Threads, r \in ConcRecords : Call(t, r)
    \/ \E t \in Threads : Write(t)
    \/ \E t \in Threads : PrintLn(t)

SpecConc == InitConc /\ [][NextConc]_vars

-----------------------------------------------------------------------------
(* Concurrency *)

AllDone == \A t \in Threads : threads[t].pc = "done"

\* How often x occurs in the sequence s.
Occurrences(s, x) == Cardinality({ n \in 1..Len(s) : s[n] = x })

\* The file at p holds one complete line per write made to it, and nothing else.
OneLinePerWrite(p) ==
    LET c == files[p].content
        ls == Lines(c)
    IN  /\ c # <<>> => c[Len(c)] = NL
        /\ Len(ls) = Len(hist[p])
        /\ \A n \in 1..Len(ls) : Occurrences(ls, ls[n]) = Occurrences(hist[p], ls[n])

\* C8: once all concurrent calls have returned, every file holds exactly one
\* complete line per accepted write: no record is lost, none is torn.
C8_ConcurrentDispatchSafe ==
    AllDone => \A p \in Paths : OneLinePerWrite(p)

\* C8 for records shorter than the buffer of BufWriter, which reach the file in
\* a single write(2) call.
C8_SmallRecords ==
    (AllDone /\ \A n \in 1..Len(dispatched) : dispatched[n].args # BigMessage) =>
        \A p \in Paths : OneLinePerWrite(p)

====
